---- MODULE Spec2Model ----
(***************************************************************************)
(* pandapower's packaging manifest, setup.py, as a state machine: one run  *)
(* of the module body (import, the two `with open` blocks, the join, the  *)
(* setup() call), the file system and the interpreter it runs on, and the *)
(* metadata it hands to the packaging tool.                               *)
(***************************************************************************)
EXTENDS Integers, Sequences, FiniteSets, TLC

VARIABLES
    pc,               \* the statement of the module body that runs next
    fs,               \* the file system: what README.rst and CHANGELOG.rst are
    pyVersion,        \* the interpreter that runs the manifest, <<major, minor>>
    extrasRequested,  \* the optional groups the install asks for
    handles,          \* the files the run holds open
    f,                \* the bytes f.read() returned inside a with block
    install,          \* setup.py:11
    changelog,        \* setup.py:13
    long_description, \* setup.py:15
    registered,       \* the keyword arguments setup() accepted
    required,         \* the requirements the packaging tool resolved
    setupCalls,       \* how many times setup() was entered
    errorAt,          \* the statement whose exception ended the run
    log               \* the statements executed so far, in order

vars == <<pc, fs, pyVersion, extrasRequested, handles, f, install, changelog,
          long_description, registered, required, setupCalls, errorAt, log>>

----------------------------------------------------------------------------
(* Bounds of the environment the run is checked in. *)

\* the longest file content, in bytes
MaxLen == 2

\* the bytes a file may hold: "\n", "A", and the two bytes of U+00E9, which
\* are valid UTF-8 only as the pair 195 169
ByteAlphabet == {10, 65, 169, 195}

RECURSIVE SeqsUpTo(_, _)
SeqsUpTo(S, n) ==
    IF n = 0 THEN {<<>>}
    ELSE LET shorter == SeqsUpTo(S, n - 1)
         IN  shorter \cup {Append(s, x) : s \in {t \in shorter : Len(t) = n - 1}, x \in S}

Contents == SeqsUpTo(ByteAlphabet, MaxLen)

\* what open() and read() can meet on disk
FileStates ==
    {[kind |-> k, bytes |-> <<>>] : k \in {"missing", "denied", "ioerror"}}
        \cup {[kind |-> "file", bytes |-> b] : b \in Contents}

Interpreters == {<<2, 7>>, <<3, 0>>, <<3, 4>>, <<3, 7>>, <<3, 10>>}

ExtraNames == {"docs"}

----------------------------------------------------------------------------
(* bytes.decode('utf-8'), strict: setup.py:11 and setup.py:13 *)

IsCont(b, i, lo, hi) == i <= Len(b) /\ b[i] >= lo /\ b[i] <= hi

\* the length of the well-formed sequence that starts at b[i]; 0 when the
\* decoder raises UnicodeDecodeError there
Utf8SeqLen(b, i) ==
    LET c == b[i] IN
    IF c < 128 THEN 1
    ELSE IF c >= 194 /\ c <= 223
         THEN IF IsCont(b, i + 1, 128, 191) THEN 2 ELSE 0
    ELSE IF c >= 224 /\ c <= 239
         THEN IF /\ IsCont(b, i + 1, IF c = 224 THEN 160 ELSE 128,
                                      IF c = 237 THEN 159 ELSE 191)
                 /\ IsCont(b, i + 2, 128, 191)
              THEN 3 ELSE 0
    ELSE IF c >= 240 /\ c <= 244
         THEN IF /\ IsCont(b, i + 1, IF c = 240 THEN 144 ELSE 128,
                                      IF c = 244 THEN 143 ELSE 191)
                 /\ IsCont(b, i + 2, 128, 191)
                 /\ IsCont(b, i + 3, 128, 191)
              THEN 4 ELSE 0
    ELSE 0

Utf8CodePoint(b, i, n) ==
    IF n = 1 THEN b[i]
    ELSE IF n = 2 THEN (b[i] - 192) * 64 + (b[i + 1] - 128)
    ELSE IF n = 3 THEN (b[i] - 224) * 4096 + (b[i + 1] - 128) * 64 + (b[i + 2] - 128)
    ELSE (b[i] - 240) * 262144 + (b[i + 1] - 128) * 4096
             + (b[i + 2] - 128) * 64 + (b[i + 3] - 128)

RECURSIVE Utf8From(_, _)
Utf8From(b, i) ==
    IF i > Len(b) THEN [ok |-> TRUE, text |-> <<>>]
    ELSE LET n == Utf8SeqLen(b, i) IN
         IF n = 0 THEN [ok |-> FALSE, text |-> <<>>]
         ELSE LET rest == Utf8From(b, i + n) IN
              IF rest.ok
              THEN [ok |-> TRUE, text |-> <<Utf8CodePoint(b, i, n)>> \o rest.text]
              ELSE rest

\* the text of b as code points, or ok = FALSE where decode raises
decode(b) == Utf8From(b, 1)

----------------------------------------------------------------------------
(* '\n\n'.join((install, changelog)): setup.py:15 *)

\* the separator, two U+000A
Separator == <<10, 10>>

RECURSIVE JoinFrom(_, _, _)
JoinFrom(sep, items, i) ==
    IF i > Len(items) THEN <<>>
    ELSE (IF i = 1 THEN <<>> ELSE sep) \o items[i] \o JoinFrom(sep, items, i + 1)

\* a join that leaves out the empty items, and with them their separator
RECURSIVE SelectNonEmpty(_, _)
SelectNonEmpty(items, i) ==
    IF i > Len(items) THEN <<>>
    ELSE (IF items[i] = <<>> THEN <<>> ELSE <<items[i]>>) \o SelectNonEmpty(items, i + 1)

join_nonempty(sep, items) == JoinFrom(sep, SelectNonEmpty(items, 1), 1)

join(sep, items) == JoinFrom(sep, items, 1)

----------------------------------------------------------------------------
(* The text of the manifest's string literals, read the way the packaging  *)
(* tool reads them.                                                        *)

Char(s, i) == SubSeq(s, i, i)

\* str.find(sep, i): the first index >= i where sep starts in s, 0 if none
RECURSIVE Find(_, _, _)
Find(s, sep, i) ==
    IF i + Len(sep) - 1 > Len(s) THEN 0
    ELSE IF SubSeq(s, i, i + Len(sep) - 1) = sep THEN i
    ELSE Find(s, sep, i + 1)

\* str.partition(sep)
Partition(s, sep) ==
    LET k == Find(s, sep, 1) IN
    IF k = 0 THEN <<s, "", "">>
    ELSE <<SubSeq(s, 1, k - 1), sep, SubSeq(s, k + Len(sep), Len(s))>>

\* str.split(sep)
RECURSIVE Split(_, _)
Split(s, sep) ==
    LET p == Partition(s, sep) IN
    IF p[2] = "" THEN <<s>> ELSE <<p[1]>> \o Split(p[3], sep)

Digits == {"0", "1", "2", "3", "4", "5", "6", "7", "8", "9"}

Letters ==
    {"a", "b", "c", "d", "e", "f", "g", "h", "i", "j", "k", "l", "m",
     "n", "o", "p", "q", "r", "s", "t", "u", "v", "w", "x", "y", "z",
     "A", "B", "C", "D", "E", "F", "G", "H", "I", "J", "K", "L", "M",
     "N", "O", "P", "Q", "R", "S", "T", "U", "V", "W", "X", "Y", "Z"}

\* the characters of a distribution name or of a marker variable
NameChars == Letters \cup Digits \cup {"-", "_", "."}

\* the characters of a version comparison operator
OpChars == {"<", ">", "=", "!", "~"}

\* the length of the longest prefix of s, from index i, made of chars of S
RECURSIVE Span(_, _, _)
Span(s, S, i) ==
    IF i > Len(s) \/ Char(s, i) \notin S THEN 0 ELSE 1 + Span(s, S, i + 1)

DigitValue(c) == CHOOSE d \in 0..9 : ToString(d) = c

RECURSIVE ParseInt(_)
ParseInt(s) ==
    IF Len(s) = 0 THEN 0
    ELSE 10 * ParseInt(SubSeq(s, 1, Len(s) - 1)) + DigitValue(Char(s, Len(s)))

\* the release of a version string: "0.17" is <<0, 17>>
ParseVersion(s) ==
    LET parts == Split(s, ".") IN [i \in 1..Len(parts) |-> ParseInt(parts[i])]

\* releases compare as tuples, the shorter padded with zeros: 3 = 3.0 < 3.10
Component(v, i) == IF i <= Len(v) THEN v[i] ELSE 0

RECURSIVE VersionCmpFrom(_, _, _)
VersionCmpFrom(a, b, i) ==
    IF i > Len(a) /\ i > Len(b) THEN 0
    ELSE IF Component(a, i) < Component(b, i) THEN -1
    ELSE IF Component(a, i) > Component(b, i) THEN 1
    ELSE VersionCmpFrom(a, b, i + 1)

VersionCmp(a, b) == VersionCmpFrom(a, b, 1)

\* one clause of a version specifier, "OP VERSION", met by version v
SpecifierContains(op, bound, v) ==
    LET c == VersionCmp(ParseVersion(v), ParseVersion(bound)) IN
    CASE op = "<"  -> c < 0
      [] op = "<=" -> c <= 0
      [] op = ">"  -> c > 0
      [] op = ">=" -> c >= 0
      [] op = "==" -> c = 0
      [] op = "!=" -> c # 0
      [] OTHER     -> FALSE

\* a requirement string, "NAME" or "NAME OP VERSION, OP VERSION ...", as its
\* name and the clauses of its specifier
ParseClause(s) ==
    LET n == Span(s, OpChars, 1) IN
    [op |-> SubSeq(s, 1, n), version |-> SubSeq(s, n + 1, Len(s))]

ParseRequirement(s) ==
    LET n      == Span(s, NameChars, 1)
        rest   == SubSeq(s, n + 1, Len(s))
        clause == IF rest = "" THEN <<>> ELSE Split(rest, ",")
    IN  [name  |-> SubSeq(s, 1, n),
         specs |-> [i \in 1..Len(clause) |-> ParseClause(clause[i])]]

\* an environment marker, "VARIABLE OP 'VALUE'"
ParseMarker(s) ==
    LET n    == Span(s, NameChars, 1)
        m    == Span(s, OpChars, n + 1)
        rest == SubSeq(s, n + m + 1, Len(s))
    IN  [variable |-> SubSeq(s, 1, n),
         op       |-> SubSeq(s, n + 1, n + m),
         value    |-> SubSeq(rest, 2, Len(rest) - 1)]

\* the marker variable python_version of an interpreter: "2.7", "3.10"
python_version(v) == ToString(v[1]) \o "." \o ToString(v[2])

\* a parsed marker evaluated on an interpreter whose python_version is pyver
MarkerApplies(m, pyver) ==
    /\ m.variable = "python_version"
    /\ SpecifierContains(m.op, m.value, pyver)

MarkerHolds(marker, pyver) == MarkerApplies(ParseMarker(marker), pyver)

\* a key of extras_require, "EXTRA:MARKER", either part possibly empty
ExtraOf(key) == Partition(key, ":")[1]
MarkerOf(key) == Partition(key, ":")[3]

----------------------------------------------------------------------------
(* The keyword arguments of the setup() call: setup.py:17-52 *)

\* the list with numpy capped from above
install_requires_capped ==
    <<"pandas>=0.17",
      "networkx",
      "scipy",
      "numpy>=0.11,<2.0",
      "packaging">>

\* the list with a documentation tool among the unconditional requirements
install_requires_sphinx ==
    <<"pandas>=0.17",
      "networkx",
      "scipy",
      "numpy>=0.11",
      "packaging",
      "sphinx">>

install_requires ==
    <<"pandas>=0.17",
      "networkx",
      "scipy",
      "numpy>=0.11",
      "packaging">>

\* the table with the marker's bound included: 'future' on 3.0 as well
extras_require_inclusive ==
    (":python_version<='3.0'" :> <<"future">>)
        @@ ("docs" :> <<"numpydoc", "sphinx", "sphinx_rtd_theme">>)

extras_require ==
    (":python_version<'3.0'" :> <<"future">>)
        @@ ("docs" :> <<"numpydoc", "sphinx", "sphinx_rtd_theme">>)

\* the list with a classifier for the legacy interpreter line
classifiers_legacy ==
    <<"Development Status :: 5 - Production/Stable",
      "Environment :: Console",
      "Intended Audience :: Developers",
      "Intended Audience :: Education",
      "Intended Audience :: Science/Research",
      "License :: OSI Approved :: BSD License",
      "Natural Language :: English",
      "Operating System :: OS Independent",
      "Programming Language :: Python",
      "Programming Language :: Python :: 2.7",
      "Programming Language :: Python :: 3",
      "Programming Language :: Python :: 3.4",
      "Programming Language :: Python :: 3.5",
      "Programming Language :: Python :: 3.6",
      "Programming Language :: Python :: 3.7",
      "Topic :: Scientific/Engineering">>

classifiers ==
    <<"Development Status :: 5 - Production/Stable",
      "Environment :: Console",
      "Intended Audience :: Developers",
      "Intended Audience :: Education",
      "Intended Audience :: Science/Research",
      "License :: OSI Approved :: BSD License",
      "Natural Language :: English",
      "Operating System :: OS Independent",
      "Programming Language :: Python",
      "Programming Language :: Python :: 3",
      "Programming Language :: Python :: 3.4",
      "Programming Language :: Python :: 3.5",
      "Programming Language :: Python :: 3.6",
      "Programming Language :: Python :: 3.7",
      "Topic :: Scientific/Engineering">>

Metadata(text) ==
    [name                 |-> "pandapower",
     version              |-> "2.0.0",
     author               |-> "Leon Thurner, Alexander Scheidler",
     author_email         |-> "leon.thurner@uni-kassel.de, alexander.scheidler@iee.fraunhofer.de",
     description          |-> "Convenient Power System Modelling and Analysis based on PYPOWER and pandas",
     long_description     |-> text,
     url                  |-> "http://www.pandapower.org",
     license              |-> "BSD",
     install_requires     |-> install_requires,
     extras_require       |-> extras_require,
     include_package_data |-> TRUE,
     classifiers          |-> classifiers]

Range(s) == {s[i] : i \in DOMAIN s}

\* the keys of extras_require, each split into its extra name and its marker
\* (no marker: the empty sequence)
ExtrasKeys ==
    [k \in DOMAIN extras_require |->
        [extra   |-> ExtraOf(k),
         markers |-> IF MarkerOf(k) = "" THEN <<>> ELSE <<ParseMarker(MarkerOf(k))>>]]

\* the keys of extras_require whose group applies: a key with no extra name
\* applies to every install, a key with no marker on every interpreter
ActiveKeys(v, extras) ==
    {k \in DOMAIN ExtrasKeys :
        /\ ExtrasKeys[k].extra = "" \/ ExtrasKeys[k].extra \in extras
        /\ \A i \in DOMAIN ExtrasKeys[k].markers :
              MarkerApplies(ExtrasKeys[k].markers[i], python_version(v))}

\* the requirement strings an install on interpreter v that asks for the
\* groups `extras` must satisfy
Requires(v, extras) ==
    Range(install_requires)
        \cup UNION {Range(extras_require[k]) : k \in ActiveKeys(v, extras)}

\* the interpreter versions a list of classifiers names: "3", "3.4", ...
ClassifierVersions(cls) ==
    {Split(c, " :: ")[3] : c \in
        {d \in Range(cls) :
            LET p == Split(d, " :: ") IN
            /\ Len(p) = 3
            /\ p[1] = "Programming Language"
            /\ p[2] = "Python"}}

----------------------------------------------------------------------------
(* One run of the module body: setup.py:8-52 *)

README == "README.rst"
CHANGELOG == "CHANGELOG.rst"

\* a name of the module before and after its assignment
Unbound == [bound |-> FALSE, value |-> <<>>]
Bound(v) == [bound |-> TRUE, value |-> v]

\* the statements in the order the module body runs them
Body ==
    <<"import",
      "open_readme", "read_readme", "decode_readme", "close_readme",
      "open_changelog", "read_changelog", "decode_changelog", "close_changelog",
      "join", "setup">>

IndexOf(at) == CHOOSE i \in DOMAIN Body : Body[i] = at

\* control that starts the body over once the description is joined
NextStatement_restart(at) ==
    IF IndexOf(at) = Len(Body) THEN "done"
    ELSE IF at = "join" THEN "open_readme"
    ELSE Body[IndexOf(at) + 1]

\* where control goes when statement `at` completes normally
NextStatement(at) ==
    IF IndexOf(at) = Len(Body) THEN "done" ELSE Body[IndexOf(at) + 1]

Init ==
    /\ pc = "import"
    /\ fs \in [{README, CHANGELOG} -> FileStates]
    /\ pyVersion \in Interpreters
    /\ extrasRequested \in SUBSET ExtraNames
    /\ handles = {}
    /\ f = <<>>
    /\ install = Unbound
    /\ changelog = Unbound
    /\ long_description = Unbound
    /\ registered = {}
    /\ required = {}
    /\ setupCalls = 0
    /\ errorAt = "none"
    /\ log = <<>>

\* statement `at` completes and control moves on
Continue(at) ==
    /\ pc' = NextStatement(at)
    /\ errorAt' = errorAt
    /\ log' = Append(log, at)

\* statement `at` raises; nothing in the module catches, so the run ends
Raise(at) ==
    /\ pc' = "error"
    /\ errorAt' = at
    /\ log' = Append(log, at)

\* an open() that fails only on a file that is not there
OpenFails_missing(st) == st.kind = "missing"

\* builtin open() of a file in state st raises OSError
OpenFails(st) == st.kind \in {"missing", "denied"}

\* a read() that returns nothing where the device fails
ReadFails_never(st) == FALSE

\* file.read() of a file in state st raises OSError
ReadFails(st) == st.kind = "ioerror"

\* a block that leaves its file open, as a bare open() does
WithExit_leak(hs, name) == hs

\* leaving a with block, normally or by an exception, closes its file
WithExit(hs, name) == hs \ {name}

\* from setuptools import setup, find_packages
Import ==
    /\ pc = "import"
    /\ \/ Continue("import")
       \/ Raise("import")
    /\ UNCHANGED <<fs, pyVersion, extrasRequested, handles, f, install, changelog,
                   long_description, registered, required, setupCalls>>

\* with open(name, 'rb') as f:
Open(at, name) ==
    /\ pc = at
    /\ IF OpenFails(fs[name])
       THEN Raise(at) /\ handles' = handles
       ELSE Continue(at) /\ handles' = handles \cup {name}
    /\ UNCHANGED <<fs, pyVersion, extrasRequested, f, install, changelog,
                   long_description, registered, required, setupCalls>>

\* f.read()
Read(at, name) ==
    /\ pc = at
    /\ IF ReadFails(fs[name])
       THEN Raise(at) /\ handles' = WithExit(handles, name) /\ f' = f
       ELSE Continue(at) /\ handles' = handles /\ f' = fs[name].bytes
    /\ UNCHANGED <<fs, pyVersion, extrasRequested, install, changelog,
                   long_description, registered, required, setupCalls>>

\* install = ... .decode('utf-8')
DecodeReadme ==
    /\ pc = "decode_readme"
    /\ IF decode(f).ok
       THEN /\ Continue("decode_readme")
            /\ install' = Bound(decode(f).text)
            /\ handles' = handles
       ELSE /\ Raise("decode_readme")
            /\ install' = install
            /\ handles' = WithExit(handles, README)
    /\ UNCHANGED <<fs, pyVersion, extrasRequested, f, changelog,
                   long_description, registered, required, setupCalls>>

\* changelog = ... .decode('utf-8')
DecodeChangelog ==
    /\ pc = "decode_changelog"
    /\ IF decode(f).ok
       THEN /\ Continue("decode_changelog")
            /\ changelog' = Bound(decode(f).text)
            /\ handles' = handles
       ELSE /\ Raise("decode_changelog")
            /\ changelog' = changelog
            /\ handles' = WithExit(handles, CHANGELOG)
    /\ UNCHANGED <<fs, pyVersion, extrasRequested, f, install,
                   long_description, registered, required, setupCalls>>

\* the end of a with block
Close(at, name) ==
    /\ pc = at
    /\ Continue(at)
    /\ handles' = WithExit(handles, name)
    /\ UNCHANGED <<fs, pyVersion, extrasRequested, f, install, changelog,
                   long_description, registered, required, setupCalls>>

OpenReadme == Open("open_readme", README)
ReadReadme == Read("read_readme", README)
CloseReadme == Close("close_readme", README)
OpenChangelog == Open("open_changelog", CHANGELOG)
ReadChangelog == Read("read_changelog", CHANGELOG)
CloseChangelog == Close("close_changelog", CHANGELOG)

\* long_description = '\n\n'.join((install, changelog))
Join ==
    /\ pc = "join"
    /\ Continue("join")
    /\ long_description' = Bound(join(Separator, <<install.value, changelog.value>>))
    /\ UNCHANGED <<fs, pyVersion, extrasRequested, handles, f, install, changelog,
                   registered, required, setupCalls>>

\* setup(...): the packaging tool takes the metadata and resolves what the
\* install requires, or raises on input or a command line it rejects
Setup ==
    /\ pc = "setup"
    /\ setupCalls' = setupCalls + 1
    /\ \/ /\ Raise("setup")
          /\ UNCHANGED <<registered, required>>
       \/ /\ Continue("setup")
          /\ registered' = {Metadata(long_description.value)}
          /\ required' = Requires(pyVersion, extrasRequested)
    /\ UNCHANGED <<fs, pyVersion, extrasRequested, handles, f, install, changelog,
                   long_description>>

Next ==
    \/ Import
    \/ OpenReadme
    \/ ReadReadme
    \/ DecodeReadme
    \/ CloseReadme
    \/ OpenChangelog
    \/ ReadChangelog
    \/ DecodeChangelog
    \/ CloseChangelog
    \/ Join
    \/ Setup

Spec == Init /\ [][Next]_vars

\* the interpreter runs the module body to its end: nothing suspends a run
\* that can take a step
FairSpec == Spec /\ WF_vars(Next)

Terminated == pc \in {"done", "error"}

----------------------------------------------------------------------------
(* Properties of the manifest *)

Names(reqs) == {ParseRequirement(r).name : r \in Range(reqs)}

SpecsOf(reqs, name) ==
    {ParseRequirement(r).specs : r \in {q \in Range(reqs) : ParseRequirement(q).name = name}}

\* C1: the install_requires list passed to setup() has exactly five entries,
\* pandas, networkx, scipy, numpy and packaging; each is a bare name or a name
\* with the single clause '>=' (pandas>=0.17, numpy>=0.11), and none carries
\* an upper bound, an exact pin or an exclusion.
C1_InstallRequires ==
    \A m \in registered :
        LET reqs == m.install_requires IN
        /\ Len(reqs) = 5
        /\ Cardinality(Names(reqs)) = 5
        /\ Names(reqs) = {"pandas", "networkx", "scipy", "numpy", "packaging"}
        /\ \A r \in Range(reqs) :
              LET specs == ParseRequirement(r).specs IN
              /\ Len(specs) <= 1
              /\ \A i \in DOMAIN specs : specs[i].op = ">="
        /\ SpecsOf(reqs, "pandas") = {<<[op |-> ">=", version |-> "0.17"]>>}
        /\ SpecsOf(reqs, "numpy") = {<<[op |-> ">=", version |-> "0.11"]>>}
        /\ \A n \in {"networkx", "scipy", "packaging"} : SpecsOf(reqs, n) = {<<>>}

C1_Witness ==
    /\ pc = "done"
    /\ \E m \in registered :
          ParseRequirement(m.install_requires[1])
              = [name |-> "pandas", specs |-> <<[op |-> ">=", version |-> "0.17"]>>]

\* the interpreter is older than 3.0
Legacy(v) == v[1] < 3 \/ (v[1] = 3 /\ v[2] < 0)

\* C2: 'future' is required if and only if the installing interpreter's
\* python_version is below 3.0: an install that asks for no optional group
\* requires exactly install_requires on a version >= 3.0 and install_requires
\* plus 'future' on a version < 3.0, and 'future' is not in install_requires.
C2_FutureIffLegacy ==
    \A m \in registered :
        /\ ("future" \in required) <=> Legacy(pyVersion)
        /\ extrasRequested = {} =>
              required = Range(m.install_requires)
                            \cup (IF Legacy(pyVersion) THEN {"future"} ELSE {})
        /\ "future" \notin Names(m.install_requires)

C2_Witness ==
    /\ pc = "done"
    /\ pyVersion = <<2, 7>>
    /\ extrasRequested = {}
    /\ "future" \in required

DocsDependencies == {"numpydoc", "sphinx", "sphinx_rtd_theme"}

\* C3: numpydoc, sphinx and sphinx_rtd_theme form the optional group 'docs':
\* they are required when the 'docs' extra is requested, and an install that
\* does not request it requires none of the three, on any interpreter.
C3_DocsOptional ==
    \A m \in registered :
        /\ "docs" \in DOMAIN m.extras_require
        /\ Range(m.extras_require["docs"]) = DocsDependencies
        /\ "docs" \in extrasRequested => DocsDependencies \subseteq required
        /\ "docs" \notin extrasRequested =>
              /\ DocsDependencies \cap required = {}
              /\ DocsDependencies \cap {ParseRequirement(r).name : r \in required} = {}

C3_Witness ==
    /\ pc = "done"
    /\ "docs" \in extrasRequested
    /\ DocsDependencies \subseteq required

\* the file a statement of a with block works on
FileOf(at) ==
    IF at \in {"open_readme", "read_readme", "decode_readme", "close_readme"}
    THEN README ELSE CHANGELOG

\* C4, as claimed: the only point at which an error can end the run is inside
\* the setup() call; no statement before it ends the run with an error.
C4_OnlySetupRaises ==
    pc = "error" => errorAt = "setup"

\* C4, amended: the manifest handles no error, so a run can end with an error
\* before setup(): at the import, and at the open, the read and the decode of
\* README.rst and of CHANGELOG.rst, each exactly when the file cannot be
\* opened, cannot be read or is not valid UTF-8; the end of a with block and
\* the join never end the run; the one other place is the setup() call.
C4_ErrorSites ==
    /\ pc = "error" <=> errorAt # "none"
    /\ errorAt \in {"none", "import", "setup",
                    "open_readme", "read_readme", "decode_readme",
                    "open_changelog", "read_changelog", "decode_changelog"}
    /\ errorAt # "none" => log[Len(log)] = errorAt
    /\ \A at \in Range(log) :
          /\ at \in {"open_readme", "open_changelog"} =>
                (errorAt = at <=> fs[FileOf(at)].kind \in {"missing", "denied"})
          /\ at \in {"read_readme", "read_changelog"} =>
                (errorAt = at <=> fs[FileOf(at)].kind = "ioerror")
          /\ at \in {"decode_readme", "decode_changelog"} =>
                (errorAt = at <=> ~decode(fs[FileOf(at)].bytes).ok)
          /\ at \in {"close_readme", "close_changelog", "join"} => errorAt # at

C4_Witness ==
    /\ pc = "error"
    /\ errorAt = "open_changelog"
    /\ fs[CHANGELOG].kind = "denied"
    /\ setupCalls = 0

\* the statements run so far are the first statements of the body, in order,
\* each once
InOrder == Len(log) <= Len(Body) /\ log = SubSeq(Body, 1, Len(log))

RunsOnce ==
    /\ InOrder
    /\ \A i, j \in DOMAIN log : log[i] = log[j] => i = j
    /\ setupCalls <= 1
    /\ setupCalls = Cardinality({i \in DOMAIN log : log[i] = "setup"})
    /\ pc = "done" => setupCalls = 1
    /\ (pc = "error" /\ errorAt # "setup") => setupCalls = 0

\* C5: a run executes once and synchronously: every run terminates, setup()
\* is called at most once, exactly once in a run that ends successfully and
\* not at all in a run that an earlier error ends, no statement is repeated
\* or re-entered, and a run that has ended takes no further step.
C5_ExecutesOnce ==
    /\ []RunsOnce
    /\ [][~Terminated]_vars
    /\ <>Terminated

C5_Witness ==
    /\ pc = "done"
    /\ setupCalls = 1
    /\ log = Body

\* the file cannot be opened, cannot be read or is not valid UTF-8
Unusable(name) ==
    \/ fs[name].kind # "file"
    \/ ~decode(fs[name].bytes).ok

\* C6: setup() is called only after README.rst and then CHANGELOG.rst have
\* each been opened, read and decoded as UTF-8, in that order; if either is
\* missing, unreadable or not valid UTF-8 the run ends in an error, setup()
\* is never called and no metadata is registered; when README.rst fails,
\* CHANGELOG.rst is never opened.
C6_SetupAfterBothRead ==
    /\ setupCalls > 0 =>
          /\ log = Body
          /\ ~Unusable(README) /\ ~Unusable(CHANGELOG)
          /\ install = Bound(decode(fs[README].bytes).text)
          /\ changelog = Bound(decode(fs[CHANGELOG].bytes).text)
    /\ (Unusable(README) \/ Unusable(CHANGELOG)) =>
          /\ pc \notin {"join", "setup", "done"}
          /\ Terminated => pc = "error"
          /\ setupCalls = 0
          /\ registered = {}
    /\ Unusable(README) => "open_changelog" \notin Range(log)

C6_Witness ==
    /\ pc = "error"
    /\ errorAt = "decode_changelog"
    /\ "close_readme" \in Range(log)
    /\ ~decode(fs[CHANGELOG].bytes).ok
    /\ setupCalls = 0
    /\ registered = {}

\* C7: the long_description passed to setup() is the README content, then two
\* newline characters, then the CHANGELOG content: README first, nothing
\* trimmed or added, the separator present also when a content is empty.
C7_LongDescription ==
    LET readme == decode(fs[README].bytes).text
        change == decode(fs[CHANGELOG].bytes).text
    IN  /\ long_description.bound =>
              /\ long_description.value = readme \o <<10, 10>> \o change
              /\ Len(long_description.value) = Len(readme) + 2 + Len(change)
        /\ \A m \in registered :
              m.long_description = readme \o <<10, 10>> \o change

C7_Witness ==
    /\ pc = "done"
    /\ fs[README].bytes = <<>>
    /\ fs[CHANGELOG].bytes = <<195, 169>>
    /\ \E m \in registered : m.long_description = <<10, 10, 233>>

\* C8: the manifest never holds both files open at once and leaks no handle:
\* README.rst is closed before CHANGELOG.rst is opened, both are closed
\* before setup() is called, and a file that was opened is closed also when
\* its read or decode fails, so no file is open in a terminal state.
C8_NoOpenHandles ==
    /\ Cardinality(handles) <= 1
    /\ pc = "open_changelog" => handles = {}
    /\ "open_changelog" \in Range(log) => README \notin handles
    /\ (pc \in {"join", "setup"} \/ setupCalls > 0) => handles = {}
    /\ Terminated => handles = {}

C8_Witness ==
    /\ pc = "error"
    /\ errorAt = "decode_changelog"
    /\ "open_changelog" \in Range(log)
    /\ handles = {}

\* the keys of extras_require under which 'future' is listed
FutureKeys(m) ==
    {k \in DOMAIN m.extras_require : "future" \in Range(m.extras_require[k])}

\* C9: every interpreter version a 'Programming Language :: Python :: X'
\* classifier names (3, 3.4, 3.5, 3.6, 3.7) is >= 3.0, so 'future' is active
\* for none of them; the interpreters under which 'future' is required are
\* versions that no classifier declares.
C9_ClassifiersNotLegacy ==
    \A m \in registered :
        LET declared == ClassifierVersions(m.classifiers) IN
        /\ declared = {"3", "3.4", "3.5", "3.6", "3.7"}
        /\ \A x \in declared :
              /\ VersionCmp(ParseVersion(x), <<3, 0>>) >= 0
              /\ \A k \in FutureKeys(m) :
                    MarkerOf(k) # "" /\ ~MarkerHolds(MarkerOf(k), x)
        /\ "future" \in required =>
              /\ python_version(pyVersion) \notin declared
              /\ ToString(pyVersion[1]) \notin declared

C9_Witness ==
    /\ pc = "done"
    /\ \E m \in registered : python_version(pyVersion) \in ClassifierVersions(m.classifiers)
    /\ "future" \notin required

====
